---- MODULE Spec2Model ----
(***************************************************************************)
(* Model of .github/scripts/populate_txns.py: a sequential script that     *)
(* talks JSON-RPC to a local node.  The script reads the block height,     *)
(* creates two accounts, submits 5 x 2 value transfers from the node's     *)
(* coinbase and reads the block height again.                              *)
(*                                                                         *)
(* Every RPC of the script is modelled in three steps: the script issues   *)
(* the request (…Call), the node handles it (Node…) and the script takes   *)
(* the response (…Return, or ScriptRaise when the response is an error).   *)
(* The node is the external collaborator: it answers each request with a   *)
(* result or an error, and mines blocks on its own schedule.               *)
(***************************************************************************)
EXTENDS Integers, Sequences, FiniteSets

\* ---------------------------------------------------------------- bounds
\* number of distinct values os.urandom can return inside Account.create
MaxRand == 2
\* the node stops mining when its height reaches MaxHeight
MaxHeight == 3
\* the node's height when the script starts is in 0..MaxInitHeight
MaxInitHeight == 1
\* number of Account.create calls explored by SpecCreate
MaxCalls == 4

\* ------------------------------------------------------ program constants
\* a loop that stops one iteration early
LoopCountShort == 4

\* range(5)
LoopCount == 5

Phrase1 == "KEYSMASH FJAFJKLDSKF7JKFDJ 2121"
Phrase2 == "KEYSMASH dassaad 441"
Phrases == <<Phrase1, Phrase2>>

NoAccount == [key |-> <<>>, address |-> <<>>]

\* ------------------------------------------------------------ variables
VARIABLES
    pc,         \* line of the script about to run, or "done" / "failed"
    phase,      \* "call": about to issue the RPC of line pc; "wait": blocked in it
    i,          \* number of completed iterations of the for loop
    dst1, dst2, \* the generated accounts
    txFrom,     \* value of web3.eth.coinbase for the dict under construction
    printed,    \* the heights printed so far
    req,        \* requests on the wire, not yet handled by the node
    rsp,        \* responses on the wire, not yet taken by the script
    requests,   \* history: every request the script has issued, in order
    returned,   \* history: number of RPC calls that have returned or raised
    sendOk,     \* history: number of send_transaction calls that returned a hash
    generated,  \* history: every Account.create call, <<phrase, account>>
    height,     \* node: current block number
    txpool,     \* node: pending transactions
    chain       \* node: mined transactions

vars == <<pc, phase, i, dst1, dst2, txFrom, printed, req, rsp, requests,
          returned, sendOk, generated, height, txpool, chain>>

scriptVars == <<pc, phase, i, dst1, dst2, txFrom, printed>>
nodeVars == <<height, txpool, chain>>

\* ------------------------------------------------------- pure functions
HexDigit == <<"0", "1", "2", "3", "4", "5", "6", "7",
              "8", "9", "a", "b", "c", "d", "e", "f">>

HexChars == {HexDigit[n] : n \in 1..16}

\* hexadecimal digit of n at 16^shift; every number of the model is below 16^7
Nibble(n, shift) == IF shift > 6 THEN 0 ELSE (n \div (16 ^ shift)) % 16

\* number of digits of n without leading zeros, as in hex(n)
HexLen(n) == IF n = 0 THEN 1 ELSE CHOOSE d \in 1..7 : 16 ^ (d - 1) <= n /\ n < 16 ^ d

\* a rendering that drops the leading zeros
ToHexUnpadded(n, width) ==
    [k \in 1..HexLen(n) |-> HexDigit[Nibble(n, HexLen(n) - k) + 1]]

\* big-endian hexadecimal rendering of n in exactly width digits
ToHex(n, width) ==
    [k \in 1..width |-> HexDigit[Nibble(n, width - k) + 1]]

PhraseIndex(p) == CHOOSE n \in 1..Len(Phrases) : Phrases[n] = p

\* keccak(os.urandom(32) + extra_entropy): a collision-free mix of the two
\* inputs; 0 is left to the node's own account
KeyNumber(rand, extra_entropy) ==
    1 + rand * Len(Phrases) + (PhraseIndex(extra_entropy) - 1)

\* the 20 address bytes derived from a key: a one-to-one scramble
AddrNumber(k) == (k * 40503 + 51966) % 65536

\* "0x" followed by 20 bytes in hexadecimal
AddressOf(k) == <<"0", "x">> \o ToHex(AddrNumber(k), 40)

\* the 32 bytes of the private key
KeyBytes(k) == ToHex(k, 64)

\* Account.create(extra_entropy), with rand the bytes os.urandom returned
Create(extra_entropy, rand) ==
    LET k == KeyNumber(rand, extra_entropy)
    IN  [key |-> KeyBytes(k), address |-> AddressOf(k)]

\* the node's own (pre-funded) account
NodeCoinbase == AddressOf(0)

\* web3.toWei(n, 'gwei'): n * 10^9 wei, kept as the pair (gwei, wei)
toWei(n, unit) ==
    IF unit = "gwei" THEN [gwei |-> n, wei |-> 0]
    ELSE [gwei |-> n \div 1000000000, wei |-> n % 1000000000]

WeiLeq(a, b) == a.gwei < b.gwei \/ (a.gwei = b.gwei /\ a.wei <= b.wei)

\* the first dict sent from a generated account
Tx1FromDst ==
    [to |-> dst2.address, from |-> dst1.address, value |-> 12345,
     gas |-> 21000, maxFeePerGas |-> toWei(250, "gwei"),
     maxPriorityFeePerGas |-> toWei(2, "gwei")]

\* the dict of lines 15-22
Tx1 ==
    [to |-> dst2.address, from |-> txFrom, value |-> 12345, gas |-> 21000,
     maxFeePerGas |-> toWei(250, "gwei"),
     maxPriorityFeePerGas |-> toWei(2, "gwei")]

\* the second dict with the amount of the first
Tx2SameValue ==
    [to |-> dst1.address, from |-> txFrom, value |-> 12345, gas |-> 21000,
     maxFeePerGas |-> toWei(250, "gwei"),
     maxPriorityFeePerGas |-> toWei(2, "gwei")]

\* the dict of lines 24-31
Tx2 ==
    [to |-> dst1.address, from |-> txFrom, value |-> 100000, gas |-> 21000,
     maxFeePerGas |-> toWei(250, "gwei"),
     maxPriorityFeePerGas |-> toWei(2, "gwei")]

\* ----------------------------------------------------------------- Init
Init ==
    /\ pc = "L8"
    /\ phase = "call"
    /\ i = 0
    /\ dst1 = NoAccount
    /\ dst2 = NoAccount
    /\ txFrom = <<>>
    /\ printed = <<>>
    /\ req = <<>>
    /\ rsp = <<>>
    /\ requests = <<>>
    /\ returned = 0
    /\ sendOk = 0
    /\ generated = <<>>
    /\ height \in 0..MaxInitHeight
    /\ txpool = <<>>
    /\ chain = <<>>
\* a call that does not wait for its response
IssueAsync(method, params) ==
    /\ phase = "call"
    /\ LET r == [id |-> Len(requests) + 1, method |-> method, params |-> params]
       IN  /\ requests' = Append(requests, r)
           /\ req' = Append(req, r)
    /\ phase' = "call"

\* ------------------------------------------------------- RPC plumbing
\* the blocking call of an RPC method: the request goes on the wire and the
\* script waits for the response
Issue(method, params) ==
    /\ phase = "call"
    /\ LET r == [id |-> Len(requests) + 1, method |-> method, params |-> params]
       IN  /\ requests' = Append(requests, r)
           /\ req' = Append(req, r)
    /\ phase' = "wait"

\* the response the script is blocked on has arrived with a result
Arrived == phase = "wait" /\ rsp /= <<>> /\ Head(rsp).ok

\* the call returns: the response leaves the wire
Take ==
    /\ rsp' = Tail(rsp)
    /\ returned' = returned + 1
    /\ phase' = "call"
\* an error handler that swallows the error and calls again
ScriptRetry ==
    /\ phase = "wait"
    /\ rsp /= <<>>
    /\ ~Head(rsp).ok
    /\ rsp' = Tail(rsp)
    /\ returned' = returned + 1
    /\ phase' = "call"
    /\ UNCHANGED <<pc, i, dst1, dst2, txFrom, printed, req, requests,
                   sendOk, generated, nodeVars>>

\* no except clause anywhere: an error response raises out of the module body
ScriptRaise ==
    /\ phase = "wait"
    /\ rsp /= <<>>
    /\ ~Head(rsp).ok
    /\ rsp' = Tail(rsp)
    /\ returned' = returned + 1
    /\ pc' = "failed"
    /\ UNCHANGED <<phase, i, dst1, dst2, txFrom, printed, req, requests,
                   sendOk, generated, nodeVars>>

\* the new line lands before the old ones
PrintLatestBlockFirst(value) == <<value>> \o printed

\* print("latest block", value)
PrintLatestBlock(value) == Append(printed, value)

\* ------------------------------------------------------- script actions
\* line 8, web3.eth.block_number
ReadBeforeCall ==
    /\ pc = "L8"
    /\ Issue("eth_blockNumber", <<>>)
    /\ UNCHANGED <<pc, i, dst1, dst2, txFrom, printed, rsp, returned, sendOk,
                   generated, nodeVars>>

\* line 8, print
ReadBeforeReturn ==
    /\ pc = "L8"
    /\ Arrived
    /\ Take
    /\ printed' = PrintLatestBlock(Head(rsp).result)
    /\ pc' = "L10"
    /\ UNCHANGED <<i, dst1, dst2, txFrom, req, requests, sendOk, generated,
                   nodeVars>>

\* line 10
CreateDst1 ==
    /\ pc = "L10"
    /\ \E rand \in 0..(MaxRand - 1) :
          /\ dst1' = Create(Phrase1, rand)
          /\ generated' = Append(generated, <<Phrase1, dst1'>>)
    /\ pc' = "L11"
    /\ UNCHANGED <<phase, i, dst2, txFrom, printed, req, rsp, requests,
                   returned, sendOk, nodeVars>>

\* line 11
CreateDst2 ==
    /\ pc = "L11"
    /\ \E rand \in 0..(MaxRand - 1) :
          /\ dst2' = Create(Phrase2, rand)
          /\ generated' = Append(generated, <<Phrase2, dst2'>>)
    /\ pc' = "L14"
    /\ UNCHANGED <<phase, i, dst1, txFrom, printed, req, rsp, requests,
                   returned, sendOk, nodeVars>>

\* a loop that runs once more
LoopHeadOffByOne ==
    /\ pc = "L14"
    /\ pc' = IF i <= LoopCount THEN "L17" ELSE "L33"
    /\ UNCHANGED <<phase, i, dst1, dst2, txFrom, printed, req, rsp, requests,
                   returned, sendOk, generated, nodeVars>>

\* line 14, for _ in range(5)
LoopHead ==
    /\ pc = "L14"
    /\ pc' = IF i < LoopCount THEN "L17" ELSE "L33"
    /\ UNCHANGED <<phase, i, dst1, dst2, txFrom, printed, req, rsp, requests,
                   returned, sendOk, generated, nodeVars>>

\* the sender looked up with another method
CoinbaseCallAccounts ==
    /\ pc \in {"L17", "L26"}
    /\ Issue("eth_accounts", <<>>)
    /\ UNCHANGED <<pc, i, dst1, dst2, txFrom, printed, rsp, returned, sendOk,
                   generated, nodeVars>>

\* lines 17 and 26, web3.eth.coinbase
CoinbaseCall ==
    /\ pc \in {"L17", "L26"}
    /\ Issue("eth_coinbase", <<>>)
    /\ UNCHANGED <<pc, i, dst1, dst2, txFrom, printed, rsp, returned, sendOk,
                   generated, nodeVars>>

CoinbaseReturn ==
    /\ pc \in {"L17", "L26"}
    /\ Arrived
    /\ Take
    /\ txFrom' = Head(rsp).result
    /\ pc' = IF pc = "L17" THEN "L15" ELSE "L24"
    /\ UNCHANGED <<i, dst1, dst2, printed, req, requests, sendOk, generated,
                   nodeVars>>

\* the two submissions of an iteration in the other order
SendCallSwapped ==
    /\ pc \in {"L15", "L24"}
    /\ Issue("eth_sendTransaction", IF pc = "L15" THEN Tx2 ELSE Tx1)
    /\ UNCHANGED <<pc, i, dst1, dst2, txFrom, printed, rsp, returned, sendOk,
                   generated, nodeVars>>

\* lines 15 and 24, web3.eth.send_transaction
SendCall ==
    /\ pc \in {"L15", "L24"}
    /\ Issue("eth_sendTransaction", IF pc = "L15" THEN Tx1 ELSE Tx2)
    /\ UNCHANGED <<pc, i, dst1, dst2, txFrom, printed, rsp, returned, sendOk,
                   generated, nodeVars>>

\* the transaction hash is discarded; after line 24 the iteration is over
SendReturn ==
    /\ pc \in {"L15", "L24"}
    /\ Arrived
    /\ Take
    /\ sendOk' = sendOk + 1
    /\ pc' = IF pc = "L15" THEN "L26" ELSE "L14"
    /\ i' = IF pc = "L15" THEN i ELSE i + 1
    /\ UNCHANGED <<dst1, dst2, txFrom, printed, req, requests, generated,
                   nodeVars>>

\* line 33, web3.eth.block_number
ReadAfterCall ==
    /\ pc = "L33"
    /\ Issue("eth_blockNumber", <<>>)
    /\ UNCHANGED <<pc, i, dst1, dst2, txFrom, printed, rsp, returned, sendOk,
                   generated, nodeVars>>

\* line 33, print; the module body ends
ReadAfterReturn ==
    /\ pc = "L33"
    /\ Arrived
    /\ Take
    /\ printed' = PrintLatestBlock(Head(rsp).result)
    /\ pc' = "done"
    /\ UNCHANGED <<i, dst1, dst2, txFrom, req, requests, sendOk, generated,
                   nodeVars>>

\* --------------------------------------------------------- node actions
Reply(r, ok, result) ==
    /\ req' = Tail(req)
    /\ rsp' = Append(rsp, [id |-> r.id, ok |-> ok, result |-> result])

\* eth_blockNumber: the height, or an error (unreachable endpoint,
\* malformed response)
NodeBlockNumber ==
    /\ req /= <<>>
    /\ Head(req).method = "eth_blockNumber"
    /\ \E ok \in BOOLEAN : Reply(Head(req), ok, IF ok THEN height ELSE -1)
    /\ UNCHANGED <<scriptVars, requests, returned, sendOk, generated, nodeVars>>

\* eth_coinbase: the node's own account, or an error
NodeCoinbaseReply ==
    /\ req /= <<>>
    /\ Head(req).method = "eth_coinbase"
    /\ \E ok \in BOOLEAN :
          Reply(Head(req), ok, IF ok THEN NodeCoinbase ELSE <<>>)
    /\ UNCHANGED <<scriptVars, requests, returned, sendOk, generated, nodeVars>>

\* eth_sendTransaction: "ok" puts the transaction in the pool and answers its
\* hash; "rejected" answers an error and changes nothing (insufficient funds,
\* nonce conflict, unreachable endpoint); "lost" puts the transaction in the
\* pool but the script gets an error (timeout, malformed response)
NodeSendTransaction ==
    /\ req /= <<>>
    /\ Head(req).method = "eth_sendTransaction"
    /\ \E outcome \in {"ok", "rejected", "lost"} :
          /\ txpool' = IF outcome = "rejected" THEN txpool
                       ELSE Append(txpool, Head(req).params)
          /\ Reply(Head(req), outcome = "ok",
                   IF outcome = "ok" THEN Len(chain) + Len(txpool) + 1 ELSE -1)
    /\ UNCHANGED <<scriptVars, requests, returned, sendOk, generated, height,
                   chain>>

\* the node seals a block with everything pending (possibly nothing)
Mine ==
    /\ height < MaxHeight
    /\ height' = height + 1
    /\ chain' = chain \o txpool
    /\ txpool' = <<>>
    /\ UNCHANGED <<scriptVars, req, rsp, requests, returned, sendOk, generated>>

\* ------------------------------------------------------- specification
ScriptNext ==
    \/ ReadBeforeCall
    \/ ReadBeforeReturn
    \/ CreateDst1
    \/ CreateDst2
    \/ LoopHead
    \/ CoinbaseCall
    \/ CoinbaseReturn
    \/ SendCall
    \/ SendReturn
    \/ ReadAfterCall
    \/ ReadAfterReturn
    \/ ScriptRaise

NodeReply ==
    \/ NodeBlockNumber
    \/ NodeCoinbaseReply
    \/ NodeSendTransaction

Next ==
    \/ ScriptNext
    \/ NodeReply
    \/ Mine

Spec == Init /\ [][Next]_vars

\* the interpreter keeps running the script and the node answers every
\* request it has received
FairSpec == Spec /\ WF_vars(ScriptNext) /\ WF_vars(NodeReply)

\* a caller of Account.create on its own: any of the script's phrases, any
\* outcome of os.urandom, MaxCalls times
CallCreate ==
    /\ Len(generated) < MaxCalls
    /\ \E p \in {Phrase1, Phrase2} : \E rand \in 0..(MaxRand - 1) :
          generated' = Append(generated, <<p, Create(p, rand)>>)
    /\ UNCHANGED <<scriptVars, req, rsp, requests, returned, sendOk, nodeVars>>

NextCreate == CallCreate

SpecCreate == Init /\ [][NextCreate]_vars

\* ------------------------------------------------------------- helpers
IsPrefix(s, t) == Len(s) <= Len(t) /\ SubSeq(t, 1, Len(s)) = s

\* what the node has received from the script, in order of arrival
NodeReceived == chain \o txpool

MethodCount(m) == Cardinality({k \in 1..Len(requests) : requests[k].method = m})

IsSend(r) == r.method = "eth_sendTransaction"

Sends == SelectSeq(requests, IsSend)

ReceivedTo(a) == Cardinality({k \in 1..Len(NodeReceived) : NodeReceived[k].to = a})

Terminated == pc \in {"done", "failed"}

ValidAddress(a) ==
    /\ Len(a) = 42
    /\ a[1] = "0" /\ a[2] = "x"
    /\ \A k \in 3..42 : a[k] \in HexChars

\* ----------------------------------------------------------------- C1
\* C1 (as stated): at every point of a run the number of transactions the
\* node has received from the script equals the number of send_transaction
\* calls that have returned successfully, and a run in which every call
\* succeeded leaves exactly 10 transactions in the node, 5 to dst1 and 5 to
\* dst2.
C1_AsStated ==
    /\ Len(NodeReceived) = sendOk
    /\ pc = "done" =>
          /\ Len(NodeReceived) = 10
          /\ ReceivedTo(dst1.address) = 5
          /\ ReceivedTo(dst2.address) = 5

\* the latest request is a send_transaction that the node has answered and
\* that has not returned a hash to the script: its response is still on the
\* wire, or it raised
LastSendNotReturnedOk ==
    /\ requests /= <<>>
    /\ IsSend(requests[Len(requests)])
    /\ req = <<>>
    /\ rsp /= <<>> \/ pc = "failed"

\* C1 (amended): a run in which every call succeeded leaves exactly 10
\* transactions in the node, 5 to dst1 and 5 to dst2; at every point the
\* node has received as many transactions as send_transaction calls have
\* returned successfully, or one more, and one more only when the latest
\* send_transaction has been accepted by the node and has not returned
\* successfully.
C1_Received ==
    /\ pc = "done" =>
          /\ Len(NodeReceived) = 10
          /\ ReceivedTo(dst1.address) = 5
          /\ ReceivedTo(dst2.address) = 5
    /\ Len(NodeReceived) \in {sendOk, sendOk + 1}
    /\ Len(NodeReceived) = sendOk + 1 => LastSendNotReturnedOk
    /\ sendOk <= Len(Sends)

C1_Witness ==
    /\ pc = "done"
    /\ sendOk = 10
    /\ Len(NodeReceived) = 10
    /\ Len(chain) > 0

\* ----------------------------------------------------------------- C2
\* C2: in every run that reaches the second print, the height printed after
\* the submissions is greater than or equal to the height printed before.
C2_HeightMonotonic ==
    Len(printed) = 2 => printed[2] >= printed[1]

C2_Witness ==
    /\ pc = "done"
    /\ Len(printed) = 2
    /\ printed[2] > printed[1]

\* ----------------------------------------------------------------- C3
\* C3: an error response of any RPC call terminates the script: the step
\* that takes the error leaves the script failed; once failed the script
\* stays failed, issues no request (no retry, no later submission) and
\* prints nothing, so the final height is never printed in a failed run;
\* and no step ever removes a transaction the node has accepted.
C3_FailureTerminates ==
    [][/\ (phase = "wait" /\ rsp /= <<>> /\ ~Head(rsp).ok /\ rsp' /= rsp)
             => (pc' = "failed" /\ requests' = requests /\ printed' = printed)
       /\ pc = "failed"
             => (pc' = "failed" /\ requests' = requests /\ req' = req
                 /\ printed' = printed /\ sendOk' = sendOk)
       /\ pc' = "failed" => Len(printed') < 2
       /\ IsPrefix(NodeReceived, NodeReceived')]_vars

C3_Witness ==
    /\ pc = "failed"
    /\ Len(NodeReceived) >= 3
    /\ Len(printed) = 1
    /\ req = <<>> /\ rsp = <<>>

\* ----------------------------------------------------------------- C4
\* C4: at most one request of the script is outstanding at any time, and a
\* request is issued only when every earlier request has returned.
C4_Sequential ==
    [][/\ Len(requests') - returned' <= 1
       /\ Len(req') + Len(rsp') <= 1
       /\ requests' /= requests
             => (returned = Len(requests) /\ req = <<>> /\ rsp = <<>>
                 /\ Len(requests') = Len(requests) + 1)]_vars

C4_Witness ==
    /\ Len(requests) >= 2
    /\ Len(req) = 1
    /\ returned = Len(requests) - 1

C6_TransferShape ==
    \A k \in 1..Len(Sends) :
       LET t == Sends[k].params
       IN  /\ t.from = NodeCoinbase
           /\ t.to \in {dst1.address, dst2.address}
           /\ t.to /= NodeCoinbase
           /\ t.to = dst2.address => t.value = 12345
           /\ t.to = dst1.address => t.value = 100000
           /\ t.gas = 21000
           /\ t.maxFeePerGas = [gwei |-> 250, wei |-> 0]
           /\ t.maxPriorityFeePerGas = [gwei |-> 2, wei |-> 0]
           /\ WeiLeq(t.maxPriorityFeePerGas, t.maxFeePerGas)

C6_Witness ==
    /\ Len(Sends) = 10
    /\ \E k \in 1..Len(Sends) : Sends[k].params.to = dst1.address
    /\ \E k \in 1..Len(Sends) : Sends[k].params.to = dst2.address

\* ----------------------------------------------------------------- C7
\* C7 (as stated): every request uses eth_blockNumber, eth_sendTransaction
\* or eth_accounts.
C7_AsStated ==
    \A k \in 1..Len(requests) :
       requests[k].method \in {"eth_blockNumber", "eth_sendTransaction",
                               "eth_accounts"}

\* C7 (amended): every request uses eth_blockNumber, eth_sendTransaction or
\* eth_coinbase, and the sender of each transfer is the result of the
\* eth_coinbase request issued just before it.
C7_Methods ==
    /\ \A k \in 1..Len(requests) :
          requests[k].method \in {"eth_blockNumber", "eth_sendTransaction",
                                  "eth_coinbase"}
    /\ \A k \in 1..Len(requests) :
          IsSend(requests[k]) =>
             /\ k > 1
             /\ requests[k - 1].method = "eth_coinbase"
             /\ requests[k].params.from = NodeCoinbase
    /\ MethodCount("eth_accounts") = 0

C7_Witness ==
    /\ pc = "done"
    /\ MethodCount("eth_coinbase") = 10
    /\ MethodCount("eth_sendTransaction") = 10
    /\ MethodCount("eth_blockNumber") = 2

\* ----------------------------------------------------------------- C8
\* C8: no request carries a generated private key, no transfer is sent from
\* a generated account, and a generated address appears in a request only
\* as the recipient of a transfer.
C8_KeysStayLocal ==
    \A k \in 1..Len(requests) :
       LET r == requests[k]
       IN  IF IsSend(r)
           THEN /\ DOMAIN r.params = {"to", "from", "value", "gas",
                                      "maxFeePerGas", "maxPriorityFeePerGas"}
                /\ r.params.from \notin {dst1.address, dst2.address}
                /\ r.params.from \notin {dst1.key, dst2.key}
                /\ r.params.to \notin {dst1.key, dst2.key}
           ELSE r.params = <<>>

C8_Witness ==
    /\ dst1.key /= <<>>
    /\ dst2.key /= <<>>
    /\ \E k \in 1..Len(Sends) : Sends[k].params.to = dst1.address
    /\ \E k \in 1..Len(Sends) : Sends[k].params.to = dst2.address

\* ----------------------------------------------------------------- C9
\* C9: the height is read at most twice and exactly twice in a successful
\* run; the first read is the first request, and its print precedes every
\* account generation and every submission; the second read is issued only
\* after 10 submissions have returned successfully; the submissions go
\* dst2, dst1, dst2, dst1, ...
C9_Order ==
    /\ MethodCount("eth_blockNumber") <= 2
    /\ pc = "done" => (MethodCount("eth_blockNumber") = 2 /\ Len(printed) = 2)
    /\ requests /= <<>> => requests[1].method = "eth_blockNumber"
    /\ (dst1 /= NoAccount \/ dst2 /= NoAccount \/ Len(requests) > 1)
          => Len(printed) >= 1
    /\ MethodCount("eth_blockNumber") = 2 =>
          /\ sendOk = 10
          /\ requests[Len(requests)].method = "eth_blockNumber"
    /\ Len(printed) = 2 => pc = "done"
    /\ \A k \in 1..Len(Sends) :
          Sends[k].params.to = IF k % 2 = 1 THEN dst2.address ELSE dst1.address

C9_Witness ==
    /\ pc = "done"
    /\ Len(Sends) = 10
    /\ Len(printed) = 2

\* ---------------------------------------------------------------- C10
\* C10: when the node answers every request, the script terminates (final
\* print or unhandled failure); it never issues more than 2 height reads,
\* 10 coinbase lookups and 10 submissions, a successful run issues exactly
\* these, and the loop runs at most 5 times.
C10_Terminates ==
    /\ <>Terminated
    /\ [](/\ MethodCount("eth_blockNumber") <= 2
          /\ MethodCount("eth_coinbase") <= 10
          /\ MethodCount("eth_sendTransaction") <= 10
          /\ i <= 5
          /\ pc = "done" =>
                /\ MethodCount("eth_blockNumber") = 2
                /\ MethodCount("eth_coinbase") = 10
                /\ MethodCount("eth_sendTransaction") = 10
                /\ Len(requests) = 22
                /\ i = 5)

C10_Witness ==
    /\ pc = "done"
    /\ Len(requests) = 22
    /\ returned = 22
    /\ i = 5

====
